---------------------------- MODULE Spec2Model ----------------------------
(***************************************************************************)
(* Model of the busapp_backend caching proxy.                              *)
(*                                                                         *)
(*   src/index.js   the deployed app: the arrival cache (fetchBusArrival), *)
(*                  GET /api/bus-arrival and POST /api/bus-arrival-batch,  *)
(*                  and the bus stop directory (fetchAllBusStops,          *)
(*                  getBusStops), which no handler of index.js calls       *)
(*   src/server.js  the local server: the same directory code, and a       *)
(*                  GET /api/bus-arrival that attaches BusStopName         *)
(*                                                                         *)
(* Node runs every handler on one thread: code between two awaits is one   *)
(* atomic step, and each await of an upstream promise is a point where     *)
(* other requests and the clock may move.  An action below is one such     *)
(* run-to-completion segment.                                              *)
(***************************************************************************)
EXTENDS Integers, Sequences, FiniteSets, TLC

VARIABLES
  now,            \* Date.now()
  arrivalCache,   \* index.js:36   Map busStopCode -> {data, timestamp}
  upstreamCalls,  \* per stop code, the BusArrival calls issued so far
  req,            \* the HTTP requests being served, one per slot
  res,            \* the response the last step sent, if it sent one
  busStopsCache,  \* index.js:31   null, or the array getBusStops stored
  cacheTimestamp, \* index.js:32   null, or the time stored with it
  dir,            \* the invocations of getBusStops in progress, one per caller
  ret,            \* the invocation of getBusStops the last step returned from
  listing         \* the number of bus stops the upstream BusStops listing has

arrivalVars == <<arrivalCache, upstreamCalls, req>>
dirVars == <<busStopsCache, cacheTimestamp, dir, listing>>
vars == <<now, arrivalCache, upstreamCalls, req, res,
          busStopsCache, cacheTimestamp, dir, ret, listing>>

---------------------------------------------------------------------------
(* Bounds of the model *)

\* milliseconds by which one clock step advances Date.now()
TickMs == 7500
\* clock steps explored
MaxTicks == 2
\* upstream BusArrival calls issued in one run
MaxCalls == 2
\* longest batch whose codes are enumerated freely
MaxBatchLen == 2

\* milliseconds by which one clock step of the directory advances Date.now()
DirTickMs == 43200000
\* clock steps of the directory explored
MaxDirTicks == 2
\* concurrent callers of getBusStops
MaxDirCallers == 1
\* callers of getBusStops that race one another
MaxRaceCallers == 2
\* full pages of 500 stops the upstream listing may have
MaxFullPages == 2
\* stops on a last, short page of the upstream listing
LastPageSize == 137
\* requests server.js serves at the same time
MaxServerReqs == 1

(* Program constants *)

batchSize == 500
CACHE_DURATION == 24 * 60 * 60 * 1000

ARRIVAL_CACHE_DURATION == 15000
MAX_BATCH == 50
CONCURRENT_LIMIT == 50

StartTime == TickMs
Codes == {"83139", "99999"}
Payloads == {"p1", "p2"}
\* one request in service per endpoint at a time
GetIds == {"get"}
PostIds == {"post"}
ReqIds == GetIds \cup PostIds
\* the keys arrivalCache is read and written with: a batch passes every
\* element of busStopCodes to fetchBusArrival, the empty string included
Keys == Codes \cup {""}

Min(a, b) == IF a < b THEN a ELSE b

---------------------------------------------------------------------------
(* The arrival cache: index.js:105-140 *)

Undefined == [present |-> FALSE]

\* index.js:134-137  the value arrivalCache.set stores
CacheEntry(data, timestamp) ==
  [present |-> TRUE, data |-> data, timestamp |-> timestamp]

ArrivalFreshMutInclusive(cached, t) ==
  cached.present /\ t - cached.timestamp <= ARRIVAL_CACHE_DURATION

\* index.js:110  cached && (Date.now() - cached.timestamp < ARRIVAL_CACHE_DURATION)
ArrivalFresh(cached, t) ==
  cached.present /\ t - cached.timestamp < ARRIVAL_CACHE_DURATION

\* An invocation of fetchBusArrival: its argument busStopCode, its local
\* `cached` (index.js:108), the await it is suspended at (pc) and, once it
\* has returned or thrown, its outcome.
NotStarted(code) ==
  [code |-> code, pc |-> "notStarted", cached |-> Undefined]

HitResultMutFlag(cached) == [data |-> cached.data, cached |-> FALSE]

\* index.js:111
HitResult(cached) == [data |-> cached.data, cached |-> TRUE]

\* index.js:139
MissResult(arrivalData) == [data |-> arrivalData, cached |-> FALSE]

\* index.js:106-124  fetchBusArrival up to its first await
StartFetch(code, cache, t) ==
  LET cached == cache[code] IN
  IF ArrivalFresh(cached, t)
    THEN [code |-> code, pc |-> "returned", cached |-> cached,
          result |-> HitResult(cached)]
    ELSE [code |-> code, pc |-> "fetch", cached |-> cached]

Returned(item, result) ==
  [code |-> item.code, pc |-> "returned", cached |-> item.cached,
   result |-> result]

Threw(item, message) ==
  [code |-> item.code, pc |-> "threw", cached |-> item.cached,
   message |-> message]

CacheAfterThrowMutNegativeCaching(cache, code, t) ==
  [cache EXCEPT ![code] = CacheEntry("error", t)]

\* index.js:126-129  the error path throws before arrivalCache.set: the map
\* is as it was
CacheAfterThrow(cache, code, t) == cache

Settled(item) == item.pc \in {"returned", "threw"}

CacheAfterStoreMutKeepsFresh(cache, code, arrivalData, t) ==
  IF ArrivalFresh(cache[code], t) THEN cache
  ELSE [cache EXCEPT ![code] = CacheEntry(arrivalData, t)]

CacheAfterStoreMutEvictsOthers(cache, code, arrivalData, t) ==
  [c \in DOMAIN cache |->
     IF c = code THEN CacheEntry(arrivalData, t) ELSE Undefined]

\* index.js:134-137  arrivalCache.set(cacheKey, ...) puts the entry under
\* the key, whatever is stored there, and touches no other key
CacheAfterStore(cache, code, arrivalData, t) ==
  [cache EXCEPT ![code] = CacheEntry(arrivalData, t)]

\* index.js:128  the message of the Error thrown on a non-success response
ApiErrorMessage == "API Error: 500 Internal Server Error - body"
FetchErrorMessage == "request to datamall2.mytransport.sg failed"
BodyErrorMessage == "invalid json response body"


---------------------------------------------------------------------------
(* The bus stop directory: index.js:40-102, the same text as server.js:17-79 *)

Null == [present |-> FALSE]
Some(v) == [present |-> TRUE, value |-> v]

\* The upstream listing is the stops 1..n in a fixed order; stop i is the
\* record {BusStopCode: BusStopCode(i), Description: Description(i)}.
BusStopCode(i) == IF i = 1 THEN "83139" ELSE ToString(i)
Description(i) == "Stop " \o ToString(i)

\* index.js:47-63  data.value of the BusStops page at $skip: the upstream
\* returns at most 500 records from that offset on
Page(skip, n) ==
  [k \in 1..(IF skip < n THEN Min(skip + batchSize, n) - skip ELSE 0) |-> skip + k]

CacheValidMutEmptyIsStale(cache, timestamp, t) ==
  /\ cache.present /\ Len(cache.value) > 0
  /\ timestamp.present /\ timestamp.value # 0
  /\ t - timestamp.value < CACHE_DURATION

\* index.js:92  busStopsCache && cacheTimestamp && (now - cacheTimestamp <
\* CACHE_DURATION): an array, empty or not, is truthy; null and 0 are not
CacheValid(cache, timestamp, t) ==
  /\ cache.present
  /\ timestamp.present /\ timestamp.value # 0
  /\ t - timestamp.value < CACHE_DURATION

IsLastPageMutInclusive(length) == length <= batchSize

IsLastPageMutNever(length) == FALSE

\* index.js:72  data.value.length < batchSize
IsLastPage(length) == length < batchSize

\* An invocation of getBusStops: its local `now` (index.js:89), the locals
\* allBusStops and skip of the fetchAllBusStops it awaits, the $skip of
\* every page call it made (calls), the await it is suspended at (pc), and
\* once it has returned how the loop ended and the value returned.
DirIdle == [pc |-> "idle"]

CallPageMutPrefetch(inv) ==
  [inv EXCEPT !.pc = "fetch",
              !.calls = inv.calls \o <<inv.skip, inv.skip + batchSize>>]

\* index.js:47  `await fetch(...BusStops?$skip=${skip})` is issued
CallPage(inv) == [inv EXCEPT !.pc = "fetch", !.calls = Append(inv.calls, inv.skip)]

\* index.js:88-97, 41-47  getBusStops up to its first await
GetBusStopsStart(cache, timestamp, t) ==
  IF CacheValid(cache, timestamp, t)
    THEN [pc |-> "returned", now |-> t, ended |-> "cached", calls |-> <<>>,
          result |-> cache.value]
    ELSE CallPage([pc |-> "start", now |-> t, allBusStops |-> <<>>,
                   skip |-> 0, calls |-> <<>>])

\* index.js:79-80, 97-101  fetchAllBusStops returns busStops to getBusStops,
\* which returns it
Return(inv, ended, busStops) ==
  [pc |-> "returned", now |-> inv.now, ended |-> ended, calls |-> inv.calls,
   allBusStops |-> inv.allBusStops, result |-> busStops]

\* index.js:58-61  a break leaves the loop with what has been pushed
Break(inv, ended) == Return(inv, ended, inv.allBusStops)

\* index.js:81-84  the catch returns an empty array
Catch(inv) == Return(inv, "threw", <<>>)

NextSkipMutSkipsOne(skip) == skip + batchSize + 1

\* index.js:76
NextSkip(skip) == skip + batchSize

\* index.js:63-77  the loop body after `await response.json()`: value is
\* data.value, or Null when the body has none
OnPage(inv, value) ==
  IF ~value.present \/ Len(value.value) = 0
    THEN Break(inv, IF value.present THEN "empty" ELSE "noValue")
  ELSE LET pushed == [inv EXCEPT !.allBusStops = inv.allBusStops \o value.value]
       IN IF IsLastPage(Len(value.value))
            THEN Break(pushed, "short")
            ELSE CallPage([pushed EXCEPT !.skip = NextSkip(inv.skip)])

\* index.js:99  cacheTimestamp = now, the `now` read at line 89
StoredTimestamp(inv, t) == inv.now

---------------------------------------------------------------------------
(* Requests: GET /api/bus-arrival and POST /api/bus-arrival-batch *)

Idle == [state |-> "idle"]

\* res.status(status).json(body) of a request
Respond(rq, status, body) ==
  [state |-> "responded", kind |-> rq.kind, apiKey |-> rq.apiKey,
   codes |-> rq.codes, items |-> rq.items, status |-> status, body |-> body]

ErrorBody(message) == [error |-> message]

BatchRecordMutNoCatch(item) ==
  IF item.pc = "returned"
    THEN [status |-> "fulfilled",
          value |-> [busStopCode |-> item.code, data |-> item.result.data,
                     cached |-> item.result.cached, success |-> TRUE]]
    ELSE [status |-> "rejected", reason |-> [message |-> item.message]]

\* index.js:187-203  the settled promise of one code's async closure: the
\* closure catches what fetchBusArrival throws, so it always fulfils
BatchRecord(item) ==
  IF item.pc = "returned"
    THEN [status |-> "fulfilled",
          value |-> [busStopCode |-> item.code, data |-> item.result.data,
                     cached |-> item.result.cached, success |-> TRUE]]
    ELSE [status |-> "fulfilled",
          value |-> [busStopCode |-> item.code, error |-> item.message,
                     success |-> FALSE]]

\* index.js:207  r.status === 'fulfilled' ? r.value : r.reason
Extract(r) == IF r.status = "fulfilled" THEN r.value ELSE r.reason

ChunkEnd(rq) == Min(rq.i + CONCURRENT_LIMIT, Len(rq.codes))

ChunkSettled(rq) ==
  \A k \in (rq.i + 1)..ChunkEnd(rq) : Settled(rq.items[k])

ChunkResultsMutReversed(rq) ==
  [k \in 1..(ChunkEnd(rq) - rq.i) |->
     Extract(BatchRecord(rq.items[ChunkEnd(rq) + 1 - k]))]

\* index.js:186-207  batchResults.map(...) of the chunk starting at rq.i:
\* Promise.allSettled keeps the order of the promises it was given
ChunkResults(rq) ==
  [k \in 1..(ChunkEnd(rq) - rq.i) |-> Extract(BatchRecord(rq.items[rq.i + k]))]

StartChunkMutOneAtATime(rq, cache, t) ==
  [rq EXCEPT !.items =
     [k \in 1..Len(rq.codes) |->
        IF k = rq.i + 1
          THEN StartFetch(rq.codes[k], cache, t)
          ELSE rq.items[k]]]

\* index.js:185-187  batch.map starts fetchBusArrival for every code of the
\* chunk, each running to its first await
StartChunk(rq, cache, t) ==
  [rq EXCEPT !.items =
     [k \in 1..Len(rq.codes) |->
        IF k > rq.i /\ k <= ChunkEnd(rq)
          THEN StartFetch(rq.codes[k], cache, t)
          ELSE rq.items[k]]]

\* index.js:184-210  the loop over the chunks, from the point where the
\* chunk at rq.i has been started: when every promise of the chunk has
\* settled its records are pushed and the next chunk starts, and after the
\* last chunk the response is sent
RECURSIVE RunBatch(_, _, _)
RunBatch(rq, cache, t) ==
  IF ~ChunkSettled(rq) THEN rq
  ELSE LET pushed == [rq EXCEPT !.results = rq.results \o ChunkResults(rq),
                                !.i = rq.i + CONCURRENT_LIMIT]
       IN IF pushed.i < Len(pushed.codes)
            THEN RunBatch(StartChunk(pushed, cache, t), cache, t)
            ELSE Respond(pushed, 200, [results |-> pushed.results])

\* index.js:153-159  the single-stop handler after fetchBusArrival settles
RunSingle(rq) ==
  LET item == rq.items[1] IN
  IF ~Settled(item) THEN rq
  ELSE IF item.pc = "returned"
    THEN Respond(rq, 200, [json |-> item.result.data])
    ELSE Respond(rq, 500, ErrorBody(item.message))

\* the handler's continuation after one of its awaited promises settled
Continue(rq, cache, t) ==
  IF rq.kind = "single" THEN RunSingle(rq) ELSE RunBatch(rq, cache, t)

\* the BusArrival calls (index.js:115) a run-to-completion segment issued
\* for code c: the invocations of fetchBusArrival it left suspended at
\* `await fetch(...)`
Issued(old, new, c) ==
  IF new.state # "pending" THEN 0
  ELSE Cardinality({k \in 1..Len(new.items) :
                      /\ new.items[k].code = c
                      /\ new.items[k].pc = "fetch"
                      /\ old.items[k].pc # "fetch"})

CountCalls(calls, old, new) ==
  [c \in DOMAIN calls |-> calls[c] + Issued(old, new, c)]

RECURSIVE SumOver(_, _)
SumOver(f, S) ==
  IF S = {} THEN 0
  ELSE LET c == CHOOSE x \in S : TRUE IN f[c] + SumOver(f, S \ {c})

TotalCalls(calls) == SumOver(calls, DOMAIN calls)

BatchSizeOkMutOffByOne(n) == n <= MAX_BATCH + 1

\* index.js:175  busStopCodes.length > 50 is refused
BatchSizeOk(n) == n <= MAX_BATCH

\* index.js:163-208  POST /api/bus-arrival-batch up to its first await
BatchHandler(body, apiKey, cache, t) ==
  LET rq0 == [state |-> "pending", kind |-> "batch", apiKey |-> apiKey,
              codes |-> body.elems,
              items |-> [k \in 1..Len(body.elems) |-> NotStarted(body.elems[k])],
              i |-> 0, results |-> <<>>]
  IN IF apiKey = ""
       THEN Respond(rq0, 400, ErrorBody("API key is required"))
     ELSE IF ~body.isArray \/ Len(body.elems) = 0
       THEN Respond(rq0, 400, ErrorBody("busStopCodes array is required"))
     ELSE IF ~BatchSizeOk(Len(body.elems))
       THEN Respond(rq0, 400, ErrorBody("Maximum 50 bus stops per batch request"))
     ELSE RunBatch(StartChunk(rq0, cache, t), cache, t)

\* index.js:142-155  GET /api/bus-arrival up to its first await
SingleHandler(busStopCode, apiKey, cache, t) ==
  LET rq0 == [state |-> "pending", kind |-> "single", apiKey |-> apiKey,
              codes |-> <<busStopCode>>,
              items |-> <<NotStarted(busStopCode)>>]
  IN IF apiKey = ""
       THEN Respond(rq0, 400, ErrorBody("API key is required"))
     ELSE IF busStopCode = ""
       THEN Respond(rq0, 400, ErrorBody("Bus stop code is required"))
     ELSE RunSingle([rq0 EXCEPT !.items = <<StartFetch(busStopCode, cache, t)>>])

---------------------------------------------------------------------------
(* The inputs explored *)

LongBatch(n) == [k \in 1..n |-> IF k = 2 THEN "99999" ELSE "83139"]

\* arrays with an empty string among their elements
EmptyCodeBatches == {<<"">>, <<"83139", "">>}

BatchElems ==
  UNION {[1..n -> Codes] : n \in 0..MaxBatchLen}
    \cup {LongBatch(n) : n \in {MAX_BATCH, MAX_BATCH + 1}}
    \cup EmptyCodeBatches

\* req.body.busStopCodes: missing (not an array) or an array of codes
BatchBodies ==
  {[isArray |-> FALSE, elems |-> <<>>]}
    \cup {[isArray |-> TRUE, elems |-> e] : e \in BatchElems}

\* the requests sent without an API key
KeylessQueries == {"83139"}
KeylessBodies == {[isArray |-> TRUE, elems |-> <<"83139">>]}

---------------------------------------------------------------------------
(* Actions of index.js *)

NoResponse == [state |-> "none"]

NoReturn == [pc |-> "none"]
DirIds == 1..MaxDirCallers

\* the process has just started: index.js:31-36
Started0 ==
  /\ now = StartTime
  /\ arrivalCache = [c \in Keys |-> Undefined]
  /\ upstreamCalls = [c \in Keys |-> 0]
  /\ req = [r \in ReqIds |-> Idle]
  /\ res = NoResponse
  /\ busStopsCache = Null
  /\ cacheTimestamp = Null
  /\ dir = [d \in DirIds |-> DirIdle]
  /\ ret = NoReturn

Init ==
  /\ Started0
  /\ listing = LastPageSize

\* time passes
Tick ==
  /\ now + TickMs <= StartTime + MaxTicks * TickMs
  /\ now' = now + TickMs
  /\ res' = NoResponse
  /\ UNCHANGED <<arrivalVars, dirVars, ret>>

\* a run-to-completion segment of the handler of slot r took the request
\* from old to new: a request that was responded to leaves its slot
Segment(r, old, new) ==
  \E rq \in {new} : \E calls \in {CountCalls(upstreamCalls, old, rq)} :
    /\ TotalCalls(calls) <= MaxCalls
    /\ upstreamCalls' = calls
    /\ IF rq.state = "responded"
         THEN req' = [req EXCEPT ![r] = Idle] /\ res' = rq
         ELSE req' = [req EXCEPT ![r] = rq] /\ res' = NoResponse

\* the request as it is before any fetchBusArrival has started
Unstarted(rq) ==
  [state |-> "pending",
   items |-> [k \in 1..Len(rq.codes) |-> NotStarted(rq.codes[k])]]

\* a request arrives in slot r and its handler runs to its first await
Arrive(r, rq) ==
  /\ req[r].state = "idle"
  /\ Segment(r, Unstarted(rq), rq)
  /\ UNCHANGED <<now, arrivalCache, dirVars, ret>>

\* index.js:142-160
GetBusArrival(r) ==
  \/ \E busStopCode \in Codes \cup {""} :
       Arrive(r, SingleHandler(busStopCode, "key", arrivalCache, now))
  \/ \E busStopCode \in KeylessQueries :
       Arrive(r, SingleHandler(busStopCode, "", arrivalCache, now))

\* index.js:163-215
PostBusArrivalBatch(r) ==
  \/ \E body \in BatchBodies :
       Arrive(r, BatchHandler(body, "key", arrivalCache, now))
  \/ \E body \in KeylessBodies :
       Arrive(r, BatchHandler(body, "", arrivalCache, now))

\* item k of request r settles as `item`, with the cache becoming `cache`;
\* the handler's continuation runs in the same segment
Settle(r, k, item, cache) ==
  \E rq \in {[req[r] EXCEPT !.items[k] = item]} :
    /\ Segment(r, rq, Continue(rq, cache, now))
    /\ arrivalCache' = cache
    /\ UNCHANGED <<now, dirVars, ret>>

Awaiting(r, k, pc) ==
  /\ req[r].state = "pending"
  /\ k \in 1..Len(req[r].items)
  /\ req[r].items[k].pc = pc

\* index.js:115-126  `await fetch(...)` resolves with a response
FetchResolves(r, k) ==
  /\ Awaiting(r, k, "fetch")
  /\ \E ok \in BOOLEAN :
       Settle(r, k, [req[r].items[k] EXCEPT !.pc = IF ok THEN "json" ELSE "text"],
              arrivalCache)

\* index.js:115  `await fetch(...)` rejects (no response from upstream)
FetchRejects(r, k) ==
  /\ Awaiting(r, k, "fetch")
  /\ Settle(r, k, Threw(req[r].items[k], FetchErrorMessage), arrivalCache)

\* index.js:131-139  the body of a success response parses: store, return
JsonResolves(r, k) ==
  /\ Awaiting(r, k, "json")
  /\ \E arrivalData \in Payloads :
       Settle(r, k, Returned(req[r].items[k], MissResult(arrivalData)),
              CacheAfterStore(arrivalCache, req[r].items[k].code, arrivalData, now))

\* index.js:127,131  `await arrivalResponse.text()` or `.json()` rejects
BodyRejects(r, k) ==
  /\ Awaiting(r, k, "json") \/ Awaiting(r, k, "text")
  /\ Settle(r, k, Threw(req[r].items[k], BodyErrorMessage), arrivalCache)

\* index.js:126-129  the body of a non-success response is read: throw
TextResolves(r, k) ==
  /\ Awaiting(r, k, "text")
  /\ Settle(r, k, Threw(req[r].items[k], ApiErrorMessage),
            CacheAfterThrow(arrivalCache, req[r].items[k].code, now))

\* the positions of the invocations request slot r has started
Items(r) == IF req[r].state = "pending" THEN DOMAIN req[r].items ELSE {}

Next ==
  \/ Tick
  \/ \E r \in GetIds : GetBusArrival(r)
  \/ \E r \in PostIds : PostBusArrivalBatch(r)
  \/ \E r \in ReqIds : \E k \in Items(r) : FetchResolves(r, k)
  \/ \E r \in ReqIds : \E k \in Items(r) : FetchRejects(r, k)
  \/ \E r \in ReqIds : \E k \in Items(r) : JsonResolves(r, k)
  \/ \E r \in ReqIds : \E k \in Items(r) : BodyRejects(r, k)
  \/ \E r \in ReqIds : \E k \in Items(r) : TextResolves(r, k)

Spec == Init /\ [][Next]_vars

\* an await of one of the invocations request slot r started completes
Completes(r) ==
  \E k \in Items(r) :
    \/ FetchResolves(r, k)
    \/ FetchRejects(r, k)
    \/ JsonResolves(r, k)
    \/ BodyRejects(r, k)
    \/ TextResolves(r, k)

\* index.js under an upstream that answers: every call that was started
\* completes, with a response or an error, and the event loop then runs the
\* continuation waiting for it
SpecFair == Spec /\ \A r \in ReqIds : WF_vars(Completes(r))

---------------------------------------------------------------------------
(* Actions of the bus stop directory *)

ListingSizes ==
  {batchSize * full + last : full \in 0..MaxFullPages, last \in {0, LastPageSize}}

InitDir ==
  /\ Started0
  /\ listing \in ListingSizes

\* time passes
TickDir ==
  /\ now + DirTickMs <= StartTime + MaxDirTicks * DirTickMs
  /\ now' = now + DirTickMs
  /\ ret' = NoReturn
  /\ UNCHANGED <<arrivalVars, res, dirVars>>

\* a run-to-completion segment took the invocation of caller d to inv: when
\* it has returned (index.js:97-101) the array and the timestamp are stored
Store(d, inv) ==
  IF inv.pc = "returned"
    THEN /\ dir' = [dir EXCEPT ![d] = DirIdle]
         /\ ret' = inv
         /\ IF inv.ended = "cached"
              THEN UNCHANGED <<busStopsCache, cacheTimestamp>>
              ELSE /\ busStopsCache' = Some(inv.result)
                   /\ cacheTimestamp' = Some(StoredTimestamp(inv, now))
    ELSE /\ dir' = [dir EXCEPT ![d] = inv]
         /\ ret' = NoReturn
         /\ UNCHANGED <<busStopsCache, cacheTimestamp>>

\* such a segment of a caller that is not a request handler
Advance(d, inv) ==
  /\ Store(d, inv)
  /\ UNCHANGED <<now, arrivalVars, res, listing>>

\* index.js:88-102  a caller invokes getBusStops
GetBusStops(d) ==
  /\ dir[d].pc = "idle"
  /\ Advance(d, GetBusStopsStart(busStopsCache, cacheTimestamp, now))

\* index.js:47-61  the page call resolves with a response, ok or not
PageFetchResolves(d) ==
  /\ dir[d].pc = "fetch"
  /\ \E ok \in BOOLEAN :
       Advance(d, IF ok THEN [dir[d] EXCEPT !.pc = "json"]
                        ELSE Break(dir[d], "notOk"))

\* index.js:47, 81-84  the page call rejects
PageFetchRejects(d) ==
  /\ dir[d].pc = "fetch"
  /\ Advance(d, Catch(dir[d]))

\* index.js:63-77  the body of the page parses, with or without a value
PageJsonResolves(d) ==
  /\ dir[d].pc = "json"
  /\ \E hasValue \in BOOLEAN :
       Advance(d, OnPage(dir[d], IF hasValue THEN Some(Page(dir[d].skip, listing))
                                             ELSE Null))

\* index.js:63, 81-84  the body of the page does not parse
PageJsonRejects(d) ==
  /\ dir[d].pc = "json"
  /\ Advance(d, Catch(dir[d]))

NextDir ==
  \/ TickDir
  \/ \E d \in DirIds : GetBusStops(d)
  \/ \E d \in DirIds : PageFetchResolves(d)
  \/ \E d \in DirIds : PageFetchRejects(d)
  \/ \E d \in DirIds : PageJsonResolves(d)
  \/ \E d \in DirIds : PageJsonRejects(d)

SpecDir == InitDir /\ [][NextDir]_vars

\* an await of the invocation of caller d completes
PageCompletes(d) ==
  \/ PageFetchResolves(d)
  \/ PageFetchRejects(d)
  \/ PageJsonResolves(d)
  \/ PageJsonRejects(d)

\* the directory under an upstream that answers: every page call that was
\* started completes, with a response or an error
SpecDirFair == SpecDir /\ \A d \in DirIds : WF_vars(PageCompletes(d))

\* The directory with callers that overlap: each of them reads the cache,
\* runs its own rebuild and stores when it ends (index.js:88-102)
RaceIds == 1..MaxRaceCallers

InitRace ==
  /\ now = StartTime
  /\ arrivalCache = [c \in Keys |-> Undefined]
  /\ upstreamCalls = [c \in Keys |-> 0]
  /\ req = [r \in ReqIds |-> Idle]
  /\ res = NoResponse
  /\ busStopsCache = Null
  /\ cacheTimestamp = Null
  /\ dir = [d \in RaceIds |-> DirIdle]
  /\ ret = NoReturn
  /\ listing \in ListingSizes

NextRace ==
  \/ TickDir
  \/ \E d \in RaceIds : GetBusStops(d)
  \/ \E d \in RaceIds : PageFetchResolves(d)
  \/ \E d \in RaceIds : PageFetchRejects(d)
  \/ \E d \in RaceIds : PageJsonResolves(d)
  \/ \E d \in RaceIds : PageJsonRejects(d)

SpecDirRace == InitRace /\ [][NextRace]_vars

---------------------------------------------------------------------------
(* Actions of server.js: GET /api/bus-arrival, which has no arrival cache
   and calls getBusStops (server.js:65-79, the text of index.js:88-102) *)

ServerIds == 1..MaxServerReqs

\* server.js:118  busStops.find(stop => stop.BusStopCode === busStopCode)
Find(busStops, busStopCode) ==
  LET hits == {k \in 1..Len(busStops) : BusStopCode(busStops[k]) = busStopCode}
  IN IF hits = {} THEN Null
     ELSE Some(busStops[CHOOSE k \in hits : \A j \in hits : k <= j])

EnrichedMutNameAlways(arrivalData, busStops, busStopCode) ==
  [json |-> arrivalData, BusStopName |-> Description(1)]

\* server.js:118-127  arrivalData as res.json sends it
Enriched(arrivalData, busStops, busStopCode) ==
  LET busStopInfo == Find(busStops, busStopCode) IN
  IF busStopInfo.present
    THEN [json |-> arrivalData, BusStopName |-> Description(busStopInfo.value)]
    ELSE [json |-> arrivalData]

\* server.js:113-117  the handler holds arrivalData and awaits getBusStops
AtDirectory(item, arrivalData) ==
  [code |-> item.code, pc |-> "directory", cached |-> item.cached,
   arrivalData |-> arrivalData]

\* server.js:117-127  the handler from its call of getBusStops on: it goes
\* on when the invocation inv has returned
AfterDirectory(rq, inv) ==
  LET item == rq.items[1] IN
  IF inv.pc # "returned" THEN rq
  ELSE Respond([rq EXCEPT !.items[1] = Returned(item, MissResult(item.arrivalData))],
               200, Enriched(item.arrivalData, inv.result, item.code))

\* server.js:107-110  the body sent for a non-success response of upstream
ServerApiErrorBody ==
  [error |-> "API Error: 500 Internal Server Error", details |-> "body"]

\* server.js:81-103  GET /api/bus-arrival up to its first await
ServerHandler(busStopCode, apiKey) ==
  LET rq0 == [state |-> "pending", kind |-> "server", apiKey |-> apiKey,
              codes |-> <<busStopCode>>,
              items |-> <<NotStarted(busStopCode)>>]
  IN IF apiKey = ""
       THEN Respond(rq0, 400, ErrorBody("API key is required"))
     ELSE IF busStopCode = ""
       THEN Respond(rq0, 400, ErrorBody("Bus stop code is required"))
     ELSE [rq0 EXCEPT !.items[1].pc = "fetch"]

\* the invocations one completed await takes an invocation of getBusStops
\* to (server.js:24-61): the page call resolves with a response that is ok
\* or not, or rejects; the body parses, with a value or without, or does not
PageOutcomes(inv, n) ==
  IF inv.pc = "fetch"
    THEN {[inv EXCEPT !.pc = "json"], Break(inv, "notOk"), Catch(inv)}
  ELSE IF inv.pc = "json"
    THEN {OnPage(inv, Some(Page(inv.skip, n))), OnPage(inv, Null), Catch(inv)}
  ELSE {}

\* the upstream listings server.js is run against: no stops, one short
\* page, one full page and a short one
ServerListings == {0, LastPageSize, batchSize + LastPageSize}

InitServer ==
  /\ now = StartTime
  /\ arrivalCache = [c \in Keys |-> Undefined]
  /\ upstreamCalls = [c \in Keys |-> 0]
  /\ req = [d \in ServerIds |-> Idle]
  /\ res = NoResponse
  /\ busStopsCache = Null
  /\ cacheTimestamp = Null
  /\ dir = [d \in DirIds |-> DirIdle]
  /\ ret = NoReturn
  /\ listing \in ServerListings

\* a run-to-completion segment of the handler of request d left it as new
ServerSegment(d, new) ==
  /\ IF new.state = "responded"
       THEN req' = [req EXCEPT ![d] = Idle] /\ res' = new
       ELSE req' = [req EXCEPT ![d] = new] /\ res' = NoResponse
  /\ UNCHANGED <<now, arrivalCache, upstreamCalls, listing>>

ServerAwaiting(d, pc) ==
  /\ req[d].state = "pending"
  /\ req[d].items[1].pc = pc

\* server.js:81-103
ServerGetBusArrival(d) ==
  /\ req[d].state = "idle"
  /\ \/ \E busStopCode \in Codes \cup {""} :
          ServerSegment(d, ServerHandler(busStopCode, "key"))
     \/ \E busStopCode \in KeylessQueries :
          ServerSegment(d, ServerHandler(busStopCode, ""))
  /\ ret' = NoReturn
  /\ UNCHANGED <<dir, busStopsCache, cacheTimestamp>>

\* server.js:94-105  `await fetch(...)` resolves with a response
ServerFetchResolves(d) ==
  /\ ServerAwaiting(d, "fetch")
  /\ \E ok \in BOOLEAN :
       ServerSegment(d, [req[d] EXCEPT !.items[1].pc = IF ok THEN "json" ELSE "text"])
  /\ ret' = NoReturn
  /\ UNCHANGED <<dir, busStopsCache, cacheTimestamp>>

\* server.js:94, 128-131  `await fetch(...)` rejects
ServerFetchRejects(d) ==
  /\ ServerAwaiting(d, "fetch")
  /\ ServerSegment(d, Respond([req[d] EXCEPT !.items[1] = Threw(@, FetchErrorMessage)],
                              500, ErrorBody(FetchErrorMessage)))
  /\ ret' = NoReturn
  /\ UNCHANGED <<dir, busStopsCache, cacheTimestamp>>

\* server.js:105-111  the body of a non-success response is read
ServerTextResolves(d) ==
  /\ ServerAwaiting(d, "text")
  /\ ServerSegment(d, Respond([req[d] EXCEPT !.items[1] = Threw(@, ApiErrorMessage)],
                              500, ServerApiErrorBody))
  /\ ret' = NoReturn
  /\ UNCHANGED <<dir, busStopsCache, cacheTimestamp>>

\* server.js:106,113, 128-131  `.text()` or `.json()` rejects
ServerBodyRejects(d) ==
  /\ ServerAwaiting(d, "json") \/ ServerAwaiting(d, "text")
  /\ ServerSegment(d, Respond([req[d] EXCEPT !.items[1] = Threw(@, BodyErrorMessage)],
                              500, ErrorBody(BodyErrorMessage)))
  /\ ret' = NoReturn
  /\ UNCHANGED <<dir, busStopsCache, cacheTimestamp>>

\* server.js:113-127  the body parses and the handler calls getBusStops
ServerJsonResolves(d) ==
  /\ ServerAwaiting(d, "json")
  /\ \E arrivalData \in Payloads :
       LET inv == GetBusStopsStart(busStopsCache, cacheTimestamp, now)
           rq == [req[d] EXCEPT !.items[1] = AtDirectory(@, arrivalData)]
       IN /\ Store(d, inv)
          /\ ServerSegment(d, AfterDirectory(rq, inv))

\* server.js:24-61, 74-78, 117-127  an await of the getBusStops the handler
\* called completes
ServerDirectoryStep(d) ==
  /\ ServerAwaiting(d, "directory")
  /\ \E inv \in PageOutcomes(dir[d], listing) :
       /\ Store(d, inv)
       /\ ServerSegment(d, AfterDirectory(req[d], inv))

\* time passes
TickServer ==
  /\ now + DirTickMs <= StartTime + MaxDirTicks * DirTickMs
  /\ now' = now + DirTickMs
  /\ ret' = NoReturn
  /\ res' = NoResponse
  /\ UNCHANGED <<arrivalVars, dirVars>>

NextServer ==
  \/ TickServer
  \/ \E d \in ServerIds : ServerGetBusArrival(d)
  \/ \E d \in ServerIds : ServerFetchResolves(d)
  \/ \E d \in ServerIds : ServerFetchRejects(d)
  \/ \E d \in ServerIds : ServerTextResolves(d)
  \/ \E d \in ServerIds : ServerBodyRejects(d)
  \/ \E d \in ServerIds : ServerJsonResolves(d)
  \/ \E d \in ServerIds : ServerDirectoryStep(d)

SpecServer == InitServer /\ [][NextServer]_vars

---------------------------------------------------------------------------
(* What a step did, read from the state before and after it *)

\* the requests whose handler started in this step: one answered at once
\* (no slot changes), or one now suspended in a slot that was idle
Arrived ==
  IF res'.state = "responded" /\ req' = req
    THEN {res'}
    ELSE {req'[r] : r \in {q \in ReqIds : req[q].state = "idle"
                                            /\ req'[q].state = "pending"}}

\* the slots whose request went on in this step after an await
Resumed == {r \in ReqIds : req[r].state = "pending" /\ req'[r] # req[r]}

\* such a request after the step: still suspended, or just answered
After(r) == IF req'[r].state = "pending" THEN req'[r] ELSE res'

\* the invocations of fetchBusArrival a request has started
Started(rq) == {k \in 1..Len(rq.items) : rq.items[k].pc # "notStarted"}

\* the age test of the spec, on the stored entry of code c
StoredFresh(c) ==
  /\ arrivalCache[c].present
  /\ now - arrivalCache[c].timestamp < ARRIVAL_CACHE_DURATION

StoredStale(c) ==
  /\ arrivalCache[c].present
  /\ now - arrivalCache[c].timestamp >= ARRIVAL_CACHE_DURATION

---------------------------------------------------------------------------
(* Claims *)

\* C1: an arrival fetch for c (single or inside a batch) made while an
\* entry is stored for c with now - fetchedAt < ARRIVAL_TTL returns
\* wasCached = true with the stored payload and issues no upstream call
\* for c.
C1_FreshEntryIsServed ==
  [][\A rq \in Arrived : \A k \in Started(rq) :
       LET c == rq.items[k].code IN
       StoredFresh(c) =>
         /\ rq.items[k].pc = "returned"
         /\ rq.items[k].result = [data |-> arrivalCache[c].data, cached |-> TRUE]
         /\ upstreamCalls'[c] = upstreamCalls[c]
         /\ arrivalCache'[c] = arrivalCache[c]]_vars

\* C1 witness: a batch answered two codes from the cache, one of them from
\* an entry stored one clock step earlier
C1_Witness ==
  /\ res.state = "responded" /\ res.kind = "batch" /\ res.status = 200
  /\ Len(res.items) = 2
  /\ \A k \in 1..2 : res.items[k].pc = "returned" /\ res.items[k].result.cached
  /\ res.items[1].cached.timestamp < now


\* the invocations of request slot r that went from pc `from` to pc `to`
Moved(r, from, to) ==
  {k \in 1..Len(req[r].items) :
     req[r].items[k].pc = from /\ After(r).items[k].pc = to}

\* C2: an arrival fetch for c made when an entry is stored with
\* now - fetchedAt >= ARRIVAL_TTL (the boundary included) issues exactly one
\* upstream call; when that call succeeds the entry is overwritten with the
\* new payload and a fetchedAt equal to the time of the store, and the
\* fetch returns wasCached = false.
C2_StaleEntryIsRefetched ==
  [][/\ \A rq \in Arrived : \A k \in Started(rq) :
          LET c == rq.items[k].code IN
          StoredStale(c) =>
            /\ rq.items[k].pc = "fetch"
            /\ upstreamCalls'[c] - upstreamCalls[c] =
                 Cardinality({j \in Started(rq) : rq.items[j].code = c})
     /\ \A r \in Resumed :
          /\ upstreamCalls' = upstreamCalls
          /\ \A k \in Moved(r, "json", "returned") :
               LET item == After(r).items[k] IN
               /\ item.result.cached = FALSE
               /\ arrivalCache'[item.code] =
                    [present |-> TRUE, data |-> item.result.data,
                     timestamp |-> now']]_vars

\* C2 witness: a fetch that found an entry exactly ARRIVAL_TTL old has
\* replaced it
C2_Witness ==
  /\ res.state = "responded" /\ res.status = 200
  /\ \E k \in 1..Len(res.items) :
       LET item == res.items[k] IN
       /\ item.pc = "returned" /\ ~item.result.cached
       /\ item.cached.present
       /\ arrivalCache[item.code].timestamp =
            item.cached.timestamp + ARRIVAL_CACHE_DURATION
       /\ arrivalCache[item.code].timestamp = now
       /\ arrivalCache[item.code].data = item.result.data
       /\ arrivalCache[item.code].data # item.cached.data

\* C3: when the upstream arrival call for c returns a non-success response
\* the fetch fails with an error to its caller and the arrival cache is
\* unchanged (absent stays absent, a stale entry keeps payload and
\* fetchedAt); no failure is cached: a fetch for c started while no fresh
\* entry is stored calls upstream.
C3_UpstreamErrorLeavesCache ==
  [][/\ \A r \in Resumed :
          /\ Moved(r, "fetch", "text") # {} => arrivalCache' = arrivalCache
          /\ \A k \in Moved(r, "text", "threw") :
               /\ arrivalCache' = arrivalCache
               /\ After(r).items[k].message # ""
               /\ req[r].kind = "single" =>
                    /\ res'.status = 500
                    /\ res'.body = [error |-> After(r).items[k].message]
     /\ \A rq \in Arrived : \A k \in Started(rq) :
          LET c == rq.items[k].code IN
          ~StoredFresh(c) =>
            /\ rq.items[k].pc = "fetch"
            /\ upstreamCalls'[c] > upstreamCalls[c]]_vars

\* C3 witness: a refresh of a stale entry failed with a non-success
\* response and the entry is the one the fetch had found
C3_Witness ==
  /\ res.state = "responded" /\ res.kind = "single" /\ res.status = 500
  /\ res.items[1].pc = "threw"
  /\ res.items[1].message = ApiErrorMessage
  /\ res.items[1].cached.present
  /\ arrivalCache[res.items[1].code] = res.items[1].cached


Answered(kind) == res'.state = "responded" /\ res'.kind = kind

\* C4: a batch is accepted only with 1 to 50 stop codes: with 0 codes or
\* with 51 or more it fails with an input error before any upstream call
\* and without changing a cache; with n codes, 1 <= n <= 50 (and an API
\* key), it succeeds and returns exactly n outcome records.
C4_BatchSizeBounds ==
  [][/\ Answered("batch") =>
          LET n == Len(res'.codes) IN
          /\ (n = 0 \/ n > 50) =>
               /\ res'.status = 400
               /\ "error" \in DOMAIN res'.body
               /\ Started(res') = {}
               /\ req' = req
               /\ upstreamCalls' = upstreamCalls
               /\ arrivalCache' = arrivalCache
          /\ (n \in 1..50 /\ res'.body # ErrorBody("API key is required")) =>
               /\ res'.status = 200
               /\ Len(res'.body.results) = n
     /\ \A r \in ReqIds :
          (req'[r].state = "pending" /\ req'[r].kind = "batch") =>
            Len(req'[r].codes) \in 1..50]_vars

\* C4 witness: a batch of 50 codes answered with 50 records
C4_Witness ==
  /\ res.state = "responded" /\ res.kind = "batch" /\ res.status = 200
  /\ Len(res.codes) = 50
  /\ Len(res.body.results) = 50

\* C5: per-item failures of a batch are isolated: the batch itself is
\* answered without an error, every code whose fetch failed has a record
\* with success = false and a non-empty error message, every other code
\* has a record with success = true carrying its own payload and wasCached,
\* and a failing fetch leaves its siblings as they were.
C5_BatchFailuresIsolated ==
  [][/\ (Answered("batch") /\ Started(res') # {}) =>
          /\ res'.status = 200
          /\ Len(res'.body.results) = Len(res'.items)
          /\ \A k \in 1..Len(res'.items) :
               LET item == res'.items[k] IN
               /\ item.pc \in {"returned", "threw"}
               /\ item.pc = "threw" =>
                    /\ item.message # ""
                    /\ res'.body.results[k] =
                         [busStopCode |-> item.code, error |-> item.message,
                          success |-> FALSE]
               /\ item.pc = "returned" =>
                    res'.body.results[k] =
                      [busStopCode |-> item.code, data |-> item.result.data,
                       cached |-> item.result.cached, success |-> TRUE]
     /\ \A r \in Resumed : \A k \in 1..Len(req[r].items) :
          (req[r].items[k].pc # "threw" /\ After(r).items[k].pc = "threw") =>
            \A j \in 1..Len(req[r].items) :
              j # k => After(r).items[j] = req[r].items[j]]_vars

\* C5 witness: "83139" succeeded and "99999" failed upstream in one batch
C5_Witness ==
  /\ res.state = "responded" /\ res.kind = "batch" /\ res.status = 200
  /\ res.codes = <<"83139", "99999">>
  /\ res.body.results[1].success
  /\ ~res.body.results[2].success
  /\ res.body.results[2].error = ApiErrorMessage

\* C6: in the result of an accepted batch the i-th record carries the stop
\* code stopCodes[i], in whatever order the fetches completed.
C6_BatchKeepsInputOrder ==
  (res.state = "responded" /\ res.kind = "batch" /\ res.status = 200) =>
    /\ Len(res.body.results) = Len(res.codes)
    /\ \A i \in 1..Len(res.codes) :
         res.body.results[i].busStopCode = res.codes[i]

\* C6 witness: the fetch of the second code completed (stored its entry)
\* before the fetch of the first
C6_Witness ==
  /\ res.state = "responded" /\ res.kind = "batch" /\ res.status = 200
  /\ res.codes = <<"83139", "99999">>
  /\ \A c \in Codes : upstreamCalls[c] = 1
  /\ \A k \in 1..2 : res.items[k].pc = "returned" /\ ~res.items[k].result.cached
  /\ arrivalCache["99999"].timestamp < arrivalCache["83139"].timestamp


\* every stop of the upstream listing, in its order
AllStops == [i \in 1..listing |-> i]

\* the stored snapshot is fresh by the age test of the spec
SnapshotFresh ==
  /\ busStopsCache.present /\ cacheTimestamp.present
  /\ now - cacheTimestamp.value < CACHE_DURATION

\* C7: a rebuild in which no page call fails requests the offsets 0, 500,
\* 1000, ... and stops at the first page with fewer than 500 items, so a
\* listing of 500*k + t stops (t < 500) costs k + 1 calls (pages of sizes
\* [500, 500, 137]: 3 calls, 1137 stops), and the snapshot stored is the
\* concatenation, in order, of the pages received.
C7_RebuildPaginates ==
  (ret.pc = "returned" /\ ret.ended \in {"short", "empty"}) =>
    /\ ret.calls = [k \in 1..((listing \div 500) + 1) |-> 500 * (k - 1)]
    /\ ret.result = AllStops
    /\ busStopsCache = Some(AllStops)

\* C7 witness: pages of sizes [500, 500, 137] gave 1137 stops in 3 calls
C7_Witness ==
  /\ ret.pc = "returned" /\ ret.ended = "short"
  /\ listing = 1137
  /\ Len(busStopsCache.value) = 1137
  /\ ret.calls = <<0, 500, 1000>>

\* C8: when a page call fails during a rebuild (a non-success response, or
\* the call or its body parsing raising an error) the rebuild stops, no
\* error reaches the caller, and the snapshot stored holds exactly the stops
\* of the pages fetched before the failure.
C8_FailedRebuildKeepsPages ==
  (ret.pc = "returned" /\ ret.ended \in {"notOk", "threw"}) =>
    /\ ret.result = ret.allBusStops
    /\ busStopsCache = Some(ret.allBusStops)

\* C9: getBusStops is cache-first: while a snapshot is stored with
\* now - fetchedAt < REFERENCE_TTL a call returns it unchanged and makes no
\* page call, also when the snapshot is empty or partial; a rebuild starts
\* only when no snapshot is stored or now - fetchedAt >= REFERENCE_TTL.
C9_DirectoryCacheFirst ==
  [][/\ SnapshotFresh =>
          \A d \in DirIds : dir[d].pc = "idle" => dir'[d].pc = "idle"
     /\ (ret'.pc = "returned" /\ ret'.ended = "cached") =>
          /\ SnapshotFresh
          /\ ret'.result = busStopsCache.value
          /\ ret'.calls = <<>>
          /\ busStopsCache' = busStopsCache
          /\ cacheTimestamp' = cacheTimestamp
     /\ \A d \in DirIds :
          (dir[d].pc = "idle" /\ dir'[d].pc # "idle") =>
            \/ ~busStopsCache.present
            \/ now - cacheTimestamp.value >= CACHE_DURATION]_vars

\* C9 witness: a snapshot that a failed rebuild left short of the listing
\* was served from the cache one clock step later
C9_Witness ==
  /\ ret.pc = "returned" /\ ret.ended = "cached"
  /\ Len(ret.result) < listing
  /\ now = cacheTimestamp.value + DirTickMs

\* C10: an arrival result returned for stop code c carries a display name
\* equal to the description of the stop of the reference directory whose
\* code is c, and is the unmodified payload when the directory has no such
\* stop.  (index.js never builds a snapshot, so the directory here is the
\* listing the upstream serves.)
C10_ArrivalIsEnriched ==
  (res.state = "responded" /\ res.kind = "single" /\ res.status = 200) =>
    LET c == res.codes[1]
        data == res.items[1].result.data
    IN IF \E i \in 1..listing : BusStopCode(i) = c
         THEN \E i \in 1..listing :
                /\ BusStopCode(i) = c
                /\ res.body = [json |-> data, BusStopName |-> Description(i)]
         ELSE res.body = [json |-> data]

\* C11: input errors are rejected before any upstream call: a single-stop
\* request with an empty or missing apiKey or stop code, and a batch with an
\* empty or missing apiKey or with any empty stopCodes[i], is answered with
\* an input error, issues no upstream arrival or page call and leaves both
\* caches unchanged.
C11_InputErrorsRejected ==
  [][\A rq \in Arrived :
       (rq.apiKey = "" \/ \E k \in 1..Len(rq.codes) : rq.codes[k] = "") =>
         /\ rq.state = "responded"
         /\ rq.status = 400
         /\ Started(rq) = {}
         /\ upstreamCalls' = upstreamCalls
         /\ arrivalCache' = arrivalCache
         /\ busStopsCache' = busStopsCache
         /\ cacheTimestamp' = cacheTimestamp
         /\ dir' = dir]_vars

\* C12: every snapshot getBusStops stores has fetchedAt equal to the current
\* time at the moment the rebuild terminates and the snapshot is stored, not
\* the time the rebuild started.
C12_StoredAtEndOfRebuild ==
  (ret.pc = "returned" /\ ret.ended # "cached") =>
    /\ busStopsCache = Some(ret.result)
    /\ cacheTimestamp = Some(now)

\* the first n stops of the upstream listing
FirstStops(n) == [i \in 1..n |-> i]

\* C13 as stated: in every reachable state the snapshot is either absent or
\* complete (it holds every stop the upstream listing returned); a partial
\* snapshot is never stored.
C13_SnapshotAbsentOrComplete ==
  busStopsCache.present => busStopsCache.value = AllStops

\* C13: in every reachable state the snapshot is either absent or a prefix
\* of the upstream listing made of whole pages: the complete listing when
\* no page call of its rebuild failed, the pages received before the failure
\* when a page call returned a non-success response or a body without a
\* value (a partial snapshot is stored), and empty when a page call or its
\* body parsing raised an error.
C13_SnapshotIsPagePrefix ==
  /\ busStopsCache.present =>
        \E n \in {batchSize * k : k \in 0..(listing \div batchSize)} \cup {listing} :
          busStopsCache.value = FirstStops(n)
  /\ (ret.pc = "returned" /\ ret.ended \in {"short", "empty"}) =>
        busStopsCache = Some(AllStops)
  /\ (ret.pc = "returned" /\ ret.ended \in {"notOk", "noValue"}) =>
        busStopsCache = Some(FirstStops(batchSize * (Len(ret.calls) - 1)))
  /\ (ret.pc = "returned" /\ ret.ended = "threw") =>
        busStopsCache = Some(<<>>)

\* C13 witness: the second page call of a rebuild got a non-success
\* response and the snapshot stored is the first page of a longer listing
C13_Witness ==
  /\ ret.pc = "returned" /\ ret.ended = "notOk"
  /\ ret.calls = <<0, 500>>
  /\ busStopsCache = Some(FirstStops(500))
  /\ listing > 500

\* the stops of the array busStops whose code is c
Hits(busStops, c) == {k \in 1..Len(busStops) : BusStopCode(busStops[k]) = c}

\* the response res' answers the arrival payload data of stop code c, with
\* the name of c taken from the array getBusStops returned in this step
AnsweredWith(c, data) ==
  /\ res'.state = "responded" /\ res'.status = 200
  /\ res'.body.json = data
  /\ ret'.pc = "returned"
  /\ IF Hits(ret'.result, c) = {}
       THEN res'.body = [json |-> data]
       ELSE \E k \in Hits(ret'.result, c) :
              res'.body = [json |-> data, BusStopName |-> Description(ret'.result[k])]

InFlightFor(c) ==
  {<<r, k>> \in ReqIds \X (1..MAX_BATCH) :
     /\ k \in Items(r)
     /\ req[r].items[k].code = c
     /\ req[r].items[k].pc \in {"fetch", "json", "text"}}

\* C15: a cache stampede is reachable and resolves last-write-wins: a fetch
\* for c that finds no fresh entry issues its own upstream call also when
\* other fetches for c are in flight or start with it (nothing de-duplicates
\* them), each of them returns wasCached = false, and each one that
\* completes overwrites the entry, whoever wrote it, so the entry stored
\* after both completed is that of the fetch that completed last.
C15_StampedeLastWriteWins ==
  [][/\ \A rq \in Arrived : \A k \in Started(rq) :
          LET c == rq.items[k].code
              same == {j \in Started(rq) : rq.items[j].code = c}
          IN (~StoredFresh(c) /\ (InFlightFor(c) # {} \/ same # {k})) =>
               /\ \A j \in same : rq.items[j].pc = "fetch"
               /\ upstreamCalls'[c] = upstreamCalls[c] + Cardinality(same)
     /\ \A r \in Resumed : \A k \in Moved(r, "json", "returned") :
          LET item == After(r).items[k] IN
          /\ item.result.cached = FALSE
          /\ arrivalCache'[item.code].data = item.result.data
          /\ arrivalCache'[item.code].timestamp = now
          /\ \A o \in InFlightFor(item.code) \ {<<r, k>>} :
               o[1] # r => req'[o[1]].items[o[2]] = req[o[1]].items[o[2]]]_vars

\* C15 witness: a batch asked for the same absent code twice, both fetches
\* saw the miss and called upstream, both returned wasCached = false, and
\* the entry is the payload of the first-listed fetch, which completed after
\* the second had stored its own
C15_Witness ==
  /\ res.state = "responded" /\ res.kind = "batch" /\ res.status = 200
  /\ res.codes = <<"83139", "83139">>
  /\ upstreamCalls["83139"] = 2
  /\ \A k \in 1..2 :
       /\ res.items[k].pc = "returned"
       /\ ~res.items[k].cached.present
       /\ ~res.items[k].result.cached
  /\ res.items[1].result.data # res.items[2].result.data
  /\ arrivalCache["83139"].data = res.items[1].result.data

\* the offsets 0, 500, ..., 500 * (n - 1)
Offsets(n) == [k \in 1..n |-> batchSize * (k - 1)]

\* C16: within one rebuild the pages are fetched strictly sequentially: at
\* most one page call is outstanding at any time, the call for offset
\* 500*(N+1) is issued only after the call for offset 500*N has completed
\* with a full page of 500 items, and no offset is requested twice.
C16_PagesSequential ==
  [][\A d \in DirIds :
       /\ dir'[d].pc \in {"fetch", "json"} =>
            LET n == Len(dir'[d].calls) IN
            /\ n >= 1
            /\ dir'[d].calls = Offsets(n)
            /\ dir'[d].skip = dir'[d].calls[n]
            /\ dir'[d].allBusStops = FirstStops(batchSize * (n - 1))
       /\ (dir[d].pc # "idle" /\ dir'[d].pc # "idle"
             /\ dir'[d].calls # dir[d].calls) =>
            LET n == Len(dir[d].calls) IN
            /\ dir[d].pc = "json"
            /\ dir'[d].calls = Append(dir[d].calls, dir[d].calls[n] + batchSize)
            /\ Len(dir'[d].allBusStops) = Len(dir[d].allBusStops) + batchSize
       /\ (dir[d].pc # "idle" /\ dir'[d].pc = "idle") =>
            ret'.calls = dir[d].calls]_vars

\* C16 witness: the third page call of a rebuild is outstanding, after two
\* full pages
C16_Witness ==
  \E d \in DirIds :
    /\ dir[d].pc = "fetch"
    /\ dir[d].calls = <<0, 500, 1000>>
    /\ Len(dir[d].allBusStops) = 1000

Remaining(skip) == IF skip < listing THEN listing - skip ELSE 0

\* C18: a rebuild terminates, and getBusStops returns to its caller, as soon
\* as a page returns zero items, returns fewer than 500 items, or fails; no
\* page call is made after the terminating page; and when every page call
\* eventually completes (the listing being finite) every call of
\* getBusStops eventually returns.
C18_RebuildTerminates ==
  /\ [][\A d \in DirIds :
          /\ (dir[d].pc = "fetch" /\ dir'[d] # dir[d]) =>
               \/ dir'[d] = [dir[d] EXCEPT !.pc = "json"]
               \/ /\ dir'[d].pc = "idle"
                  /\ ret'.pc = "returned" /\ ret'.ended \in {"notOk", "threw"}
                  /\ ret'.calls = dir[d].calls
          /\ (dir[d].pc = "json" /\ dir'[d] # dir[d]) =>
               IF dir'[d].pc = "idle"
                 THEN /\ ret'.pc = "returned"
                      /\ ret'.calls = dir[d].calls
                      /\ ret'.ended = "empty" => Remaining(dir[d].skip) = 0
                      /\ ret'.ended = "short" =>
                           Remaining(dir[d].skip) \in 1..(batchSize - 1)
                      /\ ret'.ended \in {"empty", "short", "noValue", "threw"}
                 ELSE /\ Remaining(dir[d].skip) >= batchSize
                      /\ dir'[d].pc = "fetch"
                      /\ Len(dir'[d].calls) = Len(dir[d].calls) + 1]_vars
  /\ \A d \in DirIds : (dir[d].pc # "idle") ~> (dir[d].pc = "idle")

\* C18 witness: a listing of exactly 500 stops: the second page returned
\* zero items and the rebuild ended there, after two page calls
C18_Witness ==
  /\ ret.pc = "returned" /\ ret.ended = "empty"
  /\ listing = 500
  /\ ret.calls = <<0, 500>>
  /\ Len(ret.result) = 500

\* C19: arrival cache entries are per stop code and independent: a fetch for
\* c creates or overwrites only the entry keyed by c and leaves the payload
\* and fetchedAt of every other key unchanged; no operation removes an
\* entry, so the set of cached keys only grows; and a cache hit changes
\* nothing.
C19_EntriesIndependent ==
  [][/\ DOMAIN arrivalCache' = DOMAIN arrivalCache
     /\ \A c \in Keys : arrivalCache[c].present => arrivalCache'[c].present
     /\ arrivalCache' # arrivalCache =>
          \E r \in Resumed : \E k \in Moved(r, "json", "returned") :
            LET item == After(r).items[k] IN
            /\ arrivalCache'[item.code] =
                 [present |-> TRUE, data |-> item.result.data, timestamp |-> now]
            /\ \A c \in Keys \ {item.code} : arrivalCache'[c] = arrivalCache[c]
     /\ (\E r \in ReqIds : req[r].state = "idle" /\ req'[r].state = "pending") =>
          arrivalCache' = arrivalCache
     /\ (res'.state = "responded" /\ req' = req) => arrivalCache' = arrivalCache]_vars

\* C19 witness: a fetch created the entry of one code while the entry of
\* another code, stored a clock step earlier, stayed as it was
C19_Witness ==
  /\ res.state = "responded" /\ res.kind = "single" /\ res.status = 200
  /\ ~res.items[1].result.cached
  /\ ~res.items[1].cached.present
  /\ arrivalCache[res.codes[1]].timestamp = now
  /\ \E c \in Codes \ {res.codes[1]} :
       arrivalCache[c].present /\ arrivalCache[c].timestamp < now

\* C20: under any interleaving of concurrent callers of getBusStops that
\* each see a missing or stale snapshot and each run their own rebuild, the
\* fetchedAt of the stored snapshot never moves backwards: a rebuild that
\* finishes later never replaces the snapshot with one carrying an older
\* fetchedAt.
C20_FetchedAtNeverMovesBack ==
  [][(cacheTimestamp.present /\ cacheTimestamp'.present) =>
       cacheTimestamp'.value >= cacheTimestamp.value]_vars

=============================================================================
